---- MODULE Spec2Model ----
(***************************************************************************)
(* Model of aphascience/autoshutdown.                                      *)
(*                                                                         *)
(*   auto_off.py      the per-tick evaluator: Config, cpu_inactive,        *)
(*                    shutdown_approved, routine, __main__                 *)
(*   activate_cron.py the schedule compiler: AutoOffConfig,                *)
(*                    get_first_run_time, build_cron_string,               *)
(*                    get_inactivity_threshold_choices, activate_cron,     *)
(*                    deactivate_cron, __main__                            *)
(*                                                                         *)
(* Representation.  A load average is the string that get_loadavg returns  *)
(* and that the record file holds, one per line; float() is modelled by    *)
(* what it parses to, in hundredths (float("0.05") is 5), and by the fact  *)
(* that it raises ValueError on a line that is not a number.               *)
(* cpu_idle_threshold is held in hundredths too.  A Python value whose     *)
(* type matters (ssh_check) is held as its repr: "True", "False", "1",     *)
(* "None".  A clock time is held as its hour and its minute.               *)
(***************************************************************************)
EXTENDS Integers, Sequences, FiniteSets, TLC

\* The fields of the records of this model, and what each holds.
Fields ==
    [pc |-> "the statement an evaluation is at",
     ran |-> "whether an evaluation has run",
     appended |-> "whether the evaluation appended its sample to the record",
     at |-> "the line of the record a process appended last",
     between |-> "appends of the other process since this one's, till its read",
     command |-> "a crontab line's command",
     cpu_idle_threshold |-> "Config.cpu_idle_threshold, in hundredths",
     default_shutdown_at_midnight |-> "AutoOffConfig.default_shutdown_at_midnight",
     enable |-> "the answer to the 'Enable auto-off?' prompt",
     env |-> "what the evaluation found outside the program",
     error |-> "the exception a construction or computation raised",
     exists |-> "whether the file exists",
     fault |-> "the system call that fails during the evaluation",
     file |-> "the record and marker files after the evaluation",
     hour |-> "a clock time's hour",
     hours |-> "a crontab line's hour field, split at the dash",
     inactivity_threshold_mins |-> "Config.inactivity_threshold_mins",
     lines |-> "the lines of the load-average record",
     load |-> "the text /proc/loadavg holds at LOADAVG_INDEX",
     loadavg_level_mins |-> "Config.loadavg_level_mins",
     minute |-> "a clock time's minute",
     minutes |-> "a crontab line's minute list",
     msg |-> "the message the classifier logged",
     num_periods |-> "Config.num_periods",
     own |-> "history: the lines a process appended, each with its sample",
     pre |-> "the file before the evaluation or the run",
     probed |-> "whether the SSH probe was run",
     program |-> "the executable a command runs",
     record |-> "the lines an evaluation read back",
     ret |-> "what shutdown_approved returned",
     routine_first_run_time |-> "AutoOffConfig.routine_first_run_time",
     sample |-> "the load an evaluation sampled",
     sampled |-> "whether the evaluation sampled the load",
     shutdown |-> "whether the shutdown command was issued",
     shutdown_time |-> "the configured daily shutdown time",
     ssh |-> "whether the command carries --ssh",
     ssh_check |-> "Config.ssh_check",
     ssh_open |-> "whether an SSH connection is established",
     version |-> "the version number a command carries"]

VARIABLES
    args,        \* the arguments the evaluator / Config is given
    config,      \* the Config object of the latest construction
    file,        \* the record file LOADAVG_RECORD_FILEPATH
    verdicts,    \* history: outcome of the invocation that wrote each line
    ticks,       \* history: the load average at every trigger tick
    last,        \* what the latest tick / invocation did
    power,       \* "on" | "off": off once /usr/sbin/shutdown ran
    cronargs,    \* the arguments of get_first_run_time
    first_run,   \* the result of get_first_run_time
    autooff,     \* the AutoOffConfig object of the latest construction
    cron,        \* the schedule build_cron_string compiled
    clock,       \* the minute of the latest trigger, counted from day 0 00:00
    procs,       \* overlapping evaluator processes: where each one is
    choices,     \* the result of get_inactivity_threshold_choices
    cronfile,    \* the cron file CRON_FILEPATH
    flow         \* the run of activate_cron.py: where it is

vars == <<args, config, file, verdicts, ticks, last, power, cronargs, first_run,
          autooff, cron, clock, procs, choices, cronfile, flow>>

evalVars == <<args, config, file, verdicts, ticks, last, power>>
cronVars == <<cronargs, first_run>>
schedVars == <<autooff, cron, clock>>
concVars == <<procs>>
toolVars == <<choices, cronfile, flow>>

----------------------------------------------------------------------------
(* Bounds *)

MaxTicks == 3      \* trigger ticks in one behaviour
MaxPre == 2        \* lines of a pre-existing record file
MaxLog == 4        \* lines of the record file in the classifier specification
MaxConc == 3       \* lines of the record file under overlapping evaluators

----------------------------------------------------------------------------
(* Python helpers *)

Max(a, b) == IF a >= b THEN a ELSE b
Min(a, b) == IF a <= b THEN a ELSE b

\* seq[start:stop] of Python, for any integers start and stop
PySlice(seq, start, stop) ==
    LET n == Len(seq)
        lo == IF start < 0 THEN Max(start + n, 0) ELSE Min(start, n)
        hi == IF stop < 0 THEN Max(stop + n, 0) ELSE Min(stop, n)
    IN  IF hi <= lo THEN <<>> ELSE SubSeq(seq, lo + 1, hi)

\* the strings a load average is read as; "junk" stands for any line that
\* float() does not parse
LoadStrings == {"0", "0.05", "1", "junk"}

\* the load averages of the trigger ticks
TickLoads == {"0", "1", "junk"}

IsFloat(s) == s \in {"0", "0.04", "0.05", "0.06", "1", "2"}

\* float(s) in hundredths
float(s) ==
    CASE s = "0" -> 0
      [] s = "0.04" -> 4
      [] s = "0.05" -> 5
      [] s = "0.06" -> 6
      [] s = "1" -> 100
      [] s = "2" -> 200

\* isinstance(v, bool) and bool(v) on a value held as its repr
isinstance_bool(v) == v \in {"True", "False"}
truthy(v) == v \in {"True", "1"}

----------------------------------------------------------------------------
(* auto_off.py: Config *)

LOADAVG_INDEX == [k \in {1, 5, 15} |-> CASE k = 1 -> 0 [] k = 5 -> 1 [] k = 15 -> 2]

\* validate_inactivity_threshold that accepts every threshold
validate_inactivity_threshold_any(inactivity_threshold_mins, loadavg_level_mins) ==
    TRUE

validate_inactivity_threshold(inactivity_threshold_mins, loadavg_level_mins) ==
    inactivity_threshold_mins % loadavg_level_mins = 0

validate_loadavg_level(loadavg_level_mins) ==
    loadavg_level_mins \in DOMAIN LOADAVG_INDEX

\* _validate_config without the lower bound of cpu_idle_threshold
Config_validate_config_no_lower(a) ==
    IF ~isinstance_bool(a.ssh_check) THEN "TypeError"
    ELSE IF a.cpu_idle_threshold > 100 THEN "ValueError"
    ELSE IF ~validate_loadavg_level(a.loadavg_level_mins) THEN "ValueError"
    ELSE IF ~validate_inactivity_threshold(a.inactivity_threshold_mins,
                                           a.loadavg_level_mins) THEN "ValueError"
    ELSE ""

\* the exception _validate_config raises, "" when it raises none
Config_validate_config(a) ==
    IF ~isinstance_bool(a.ssh_check) THEN "TypeError"
    ELSE IF a.cpu_idle_threshold > 100 \/ a.cpu_idle_threshold < 0 THEN "ValueError"
    ELSE IF ~validate_loadavg_level(a.loadavg_level_mins) THEN "ValueError"
    ELSE IF ~validate_inactivity_threshold(a.inactivity_threshold_mins,
                                           a.loadavg_level_mins) THEN "ValueError"
    ELSE ""

\* int(a / b) for b > 0: the quotient truncated towards zero
Config_set_num_periods(a) ==
    IF a.inactivity_threshold_mins >= 0
    THEN a.inactivity_threshold_mins \div a.loadavg_level_mins
    ELSE -((-a.inactivity_threshold_mins) \div a.loadavg_level_mins)

NoConfig == [error |-> "none"]

\* Config.__init__: the object, or the exception it raised
Config(a) ==
    IF Config_validate_config(a) # ""
    THEN [error |-> Config_validate_config(a)]
    ELSE [cpu_idle_threshold |-> a.cpu_idle_threshold,
          inactivity_threshold_mins |-> a.inactivity_threshold_mins,
          loadavg_level_mins |-> a.loadavg_level_mins,
          num_periods |-> Config_set_num_periods(a),
          ssh_check |-> a.ssh_check]

Constructed(c) == "error" \notin DOMAIN c

----------------------------------------------------------------------------
(* auto_off.py: the classifier *)

\* cpu_inactive with 'len(loadavg_record) > config.num_periods'
cpu_inactive_verdict_strict_len(c, loadavg_record) ==
    LET n == Len(loadavg_record)
        window == PySlice(loadavg_record, -c.num_periods, -1)
    IN  IF ~IsFloat(loadavg_record[n]) THEN "ValueError"
        ELSE IF float(loadavg_record[n]) < c.cpu_idle_threshold
        THEN IF n > c.num_periods
             THEN IF \E i \in 1..Len(window) : ~IsFloat(window[i])
                  THEN "ValueError"
                  ELSE IF \E i \in 1..Len(window) :
                              float(window[i]) >= c.cpu_idle_threshold
                       THEN "inside inactivity window"
                       ELSE "shutting down machine"
             ELSE "inside inactivity window"
        ELSE "system busy"

\* cpu_inactive with a sample equal to the threshold counted as idle
cpu_inactive_verdict_busy_above(c, loadavg_record) ==
    LET n == Len(loadavg_record)
        window == PySlice(loadavg_record, -c.num_periods, -1)
    IN  IF ~IsFloat(loadavg_record[n]) THEN "ValueError"
        ELSE IF float(loadavg_record[n]) <= c.cpu_idle_threshold
        THEN IF n >= c.num_periods
             THEN IF \E i \in 1..Len(window) : ~IsFloat(window[i])
                  THEN "ValueError"
                  ELSE IF \E i \in 1..Len(window) :
                              float(window[i]) >= c.cpu_idle_threshold
                       THEN "inside inactivity window"
                       ELSE "shutting down machine"
             ELSE "inside inactivity window"
        ELSE "system busy"

\* lines 113-126 of cpu_inactive: the message logged for the record read
\* back, or the exception float() raised
cpu_inactive_verdict(c, loadavg_record) ==
    LET n == Len(loadavg_record)
        window == PySlice(loadavg_record, -c.num_periods, -1)
    IN  IF ~IsFloat(loadavg_record[n]) THEN "ValueError"
        ELSE IF float(loadavg_record[n]) < c.cpu_idle_threshold
        THEN IF n >= c.num_periods
             THEN IF \E i \in 1..Len(window) : ~IsFloat(window[i])
                  THEN "ValueError"
                  ELSE IF \E i \in 1..Len(window) :
                              float(window[i]) >= c.cpu_idle_threshold
                       THEN "inside inactivity window"
                       ELSE "shutting down machine"
             ELSE "inside inactivity window"
        ELSE "system busy"

\* what a call returns: "True", "False", or "raised"
Returned(msg) ==
    CASE msg = "shutting down machine" -> "True"
      [] msg \in {"inside inactivity window", "system busy",
                  "SSH connection open"} -> "False"
      [] OTHER -> "raised"

\* get_loadavg: the string read, or a failure of the read
get_loadavg(env) == IF env.fault = "loadavg" THEN "raised" ELSE env.load

\* the record file opened with mode="w"
record_write(lines, sample) == <<sample>>

\* the record file opened with mode="r+": the line goes to the start
record_prepend(lines, sample) == <<sample>> \o lines

\* open(loadavg_record_filepath, mode="a") and the write: the line goes to
\* the end of the file
record_append(lines, sample) == Append(lines, sample)

\* cpu_inactive with the line end written although get_loadavg raised
cpu_inactive_blank_line(c, lines, env) ==
    IF env.fault = "append"
    THEN [appended |-> FALSE,
          lines |-> lines,
          msg |-> "IOError",
          sampled |-> FALSE]
    ELSE IF get_loadavg(env) = "raised"
    THEN [appended |-> TRUE,
          lines |-> record_append(lines, ""),
          msg |-> "IOError",
          sampled |-> FALSE]
    ELSE IF env.fault = "read"
    THEN [appended |-> TRUE,
          lines |-> record_append(lines, get_loadavg(env)),
          msg |-> "IOError",
          sampled |-> TRUE]
    ELSE [appended |-> TRUE,
          lines |-> record_append(lines, get_loadavg(env)),
          msg |-> cpu_inactive_verdict(c, record_append(lines, get_loadavg(env))),
          sampled |-> TRUE]

\* cpu_inactive: append the sample, read the record back, classify
cpu_inactive(c, lines, env) ==
    IF env.fault = "append" \/ get_loadavg(env) = "raised"
    THEN [appended |-> FALSE,
          lines |-> lines,
          msg |-> "IOError",
          sampled |-> FALSE]
    ELSE IF env.fault = "read"
    THEN [appended |-> TRUE,
          lines |-> record_append(lines, get_loadavg(env)),
          msg |-> "IOError",
          sampled |-> TRUE]
    ELSE [appended |-> TRUE,
          lines |-> record_append(lines, get_loadavg(env)),
          msg |-> cpu_inactive_verdict(c, record_append(lines, get_loadavg(env))),
          sampled |-> TRUE]

\* the outcome r of cpu_inactive, with whether the SSH probe ran before it
with_probed(r, probed) ==
    [appended |-> r.appended,
     lines |-> r.lines,
     msg |-> r.msg,
     probed |-> probed,
     sampled |-> r.sampled]

\* ssh_connections: the probe's answer
ssh_connections(env) == env.ssh_open

\* shutdown_approved with the classifier run before the SSH check
shutdown_approved_classifier_first(c, lines, env) ==
    IF truthy(c.ssh_check)
    THEN IF env.fault = "ssh"
         THEN [appended |-> cpu_inactive(c, lines, env).appended,
               lines |-> cpu_inactive(c, lines, env).lines,
               msg |-> "CalledProcessError",
               probed |-> TRUE,
               sampled |-> cpu_inactive(c, lines, env).sampled]
         ELSE IF ssh_connections(env)
         THEN [appended |-> cpu_inactive(c, lines, env).appended,
               lines |-> cpu_inactive(c, lines, env).lines,
               msg |-> "SSH connection open",
               probed |-> TRUE,
               sampled |-> cpu_inactive(c, lines, env).sampled]
         ELSE with_probed(cpu_inactive(c, lines, env), TRUE)
    ELSE with_probed(cpu_inactive(c, lines, env), FALSE)

\* shutdown_approved without the test of config.ssh_check
shutdown_approved_always_probe(c, lines, env) ==
    IF env.fault = "ssh"
    THEN [appended |-> FALSE,
          lines |-> lines,
          msg |-> "CalledProcessError",
          probed |-> TRUE,
          sampled |-> FALSE]
    ELSE IF ssh_connections(env)
    THEN [appended |-> FALSE,
          lines |-> lines,
          msg |-> "SSH connection open",
          probed |-> TRUE,
          sampled |-> FALSE]
    ELSE with_probed(cpu_inactive(c, lines, env), TRUE)

\* shutdown_approved
shutdown_approved(c, lines, env) ==
    IF truthy(c.ssh_check)
    THEN IF env.fault = "ssh"
         THEN [appended |-> FALSE,
               lines |-> lines,
               msg |-> "CalledProcessError",
               probed |-> TRUE,
               sampled |-> FALSE]
         ELSE IF ssh_connections(env)
         THEN [appended |-> FALSE,
               lines |-> lines,
               msg |-> "SSH connection open",
               probed |-> TRUE,
               sampled |-> FALSE]
         ELSE with_probed(cpu_inactive(c, lines, env), TRUE)
    ELSE with_probed(cpu_inactive(c, lines, env), FALSE)

\* routine with the shutdown run unless shutdown_approved returned False
routine_fail_open(c, f, env) ==
    LET r == shutdown_approved(c, f.lines, env)
    IN  [appended |-> r.appended,
         file |-> [exists |-> TRUE, lines |-> r.lines],
         msg |-> r.msg,
         probed |-> r.probed,
         ret |-> Returned(r.msg),
         sampled |-> r.sampled,
         shutdown |-> (Returned(r.msg) # "False")]

\* routine: create the record file when it is missing, decide, shut down
routine(c, f, env) ==
    LET r == shutdown_approved(c, f.lines, env)
    IN  [appended |-> r.appended,
         file |-> [exists |-> TRUE, lines |-> r.lines],
         msg |-> r.msg,
         probed |-> r.probed,
         ret |-> Returned(r.msg),
         sampled |-> r.sampled,
         shutdown |-> (Returned(r.msg) = "True")]

----------------------------------------------------------------------------
(* auto_off.py: __main__, once per trigger tick *)

\* what the cron line passes: argparse types the numbers, --ssh is a flag
TickArgs ==
    [cpu_idle_threshold : {5},
     inactivity_threshold_mins : {0, 15, 20, 30, 45},
     loadavg_level_mins : {15},
     ssh_check : {"True", "False"}]

Faults == {"none", "ssh", "loadavg", "append", "read"}

TickEnvs == [fault : Faults, load : TickLoads, ssh_open : BOOLEAN]

NoEnv == [fault |-> "none", load |-> "0", ssh_open |-> FALSE]

NoTick == [ran |-> FALSE,
           appended |-> FALSE,
           env |-> NoEnv,
           msg |-> "",
           pre |-> <<>>,
           probed |-> FALSE,
           ret |-> "",
           sampled |-> FALSE,
           shutdown |-> FALSE]

NoFile == [exists |-> FALSE, lines |-> <<>>]

\* __main__ when Config(...) raised: the error is logged, nothing else runs
\* and the record file f stays as it was
main_config_error(c, f) ==
    [appended |-> FALSE,
     file |-> f,
     msg |-> c.error,
     probed |-> FALSE,
     ret |-> "raised",
     sampled |-> FALSE,
     shutdown |-> FALSE]

\* __main__: build the Config from the arguments, run the routine; an
\* exception of either is caught and logged
main(a, f, env) ==
    IF Constructed(Config(a))
    THEN routine(Config(a), f, env)
    ELSE main_config_error(Config(a), f)

Tick(env) ==
    /\ power = "on"
    /\ Len(ticks) < MaxTicks
    /\ LET r == main(args, file, env)
       IN  /\ config' = Config(args)
           /\ file' = r.file
           /\ verdicts' = IF r.appended THEN Append(verdicts, r.msg) ELSE verdicts
           /\ last' = [ran |-> TRUE,
                       appended |-> r.appended,
                       env |-> env,
                       msg |-> r.msg,
                       pre |-> file.lines,
                       probed |-> r.probed,
                       ret |-> r.ret,
                       sampled |-> r.sampled,
                       shutdown |-> r.shutdown]
           /\ power' = IF r.shutdown THEN "off" ELSE "on"
    /\ ticks' = Append(ticks, env.load)
    /\ UNCHANGED <<args, cronVars, schedVars, concVars, toolVars>>

\* the machine is started again; the record file lives in a non-persistent
\* directory, which the boot may or may not have emptied
Boot(keep) ==
    /\ power = "off"
    /\ power' = "on"
    /\ file' = IF keep THEN file ELSE NoFile
    /\ verdicts' = IF keep THEN verdicts ELSE <<>>
    /\ last' = NoTick
    /\ UNCHANGED <<args, config, ticks, cronVars, schedVars, concVars, toolVars>>

NoArgs == [cpu_idle_threshold |-> 5,
           inactivity_threshold_mins |-> 15,
           loadavg_level_mins |-> 15,
           ssh_check |-> "True"]

Procs == {1, 2}
NoProc == [pc |-> "idle", at |-> 0, between |-> 0, msg |-> "", own |-> {},
           record |-> <<>>, sample |-> ""]
NoProcs == [p \in Procs |-> NoProc]

NoCron == [inactivity_threshold_mins |-> 0,
           loadavg_level_mins |-> 0,
           shutdown_time |-> [hour |-> 0, minute |-> 0]]
NoTime == [error |-> "none"]
NoAutoOff == [error |-> "none"]
NoSchedule == [error |-> "none"]
NoClock == -1
NoChoices == <<>>
NoCronFile == [exists |-> FALSE, lines |-> <<>>]
NoFlow == [pc |-> "none", enable |-> FALSE, pre |-> NoCronFile]

Init ==
    /\ args \in TickArgs
    /\ config = NoConfig
    /\ file = NoFile
    /\ verdicts = <<>>
    /\ ticks = <<>>
    /\ last = NoTick
    /\ power = "on"
    /\ cronargs = NoCron
    /\ first_run = NoTime
    /\ autooff = NoAutoOff
    /\ cron = NoSchedule
    /\ clock = NoClock
    /\ procs = NoProcs
    /\ choices = NoChoices
    /\ cronfile = NoCronFile
    /\ flow = NoFlow

Next ==
    \/ \E env \in TickEnvs : Tick(env)
    \/ \E keep \in BOOLEAN : Boot(keep)

Spec == Init /\ [][Next]_vars

----------------------------------------------------------------------------
(* Config as a constructor: any arguments *)

RawArgs ==
    [cpu_idle_threshold : {-1, 0, 5, 100, 101},
     inactivity_threshold_mins : {-15, -1, 0, 1, 2, 3, 7, 15, 30},
     loadavg_level_mins : {0, 1, 5, 10, 15},
     ssh_check : {"True", "False", "1", "None"}]

InitConfig ==
    /\ args \in RawArgs
    /\ config = NoConfig
    /\ file = NoFile
    /\ verdicts = <<>>
    /\ ticks = <<>>
    /\ last = NoTick
    /\ power = "on"
    /\ cronargs = NoCron
    /\ first_run = NoTime
    /\ autooff = NoAutoOff
    /\ cron = NoSchedule
    /\ clock = NoClock
    /\ procs = NoProcs
    /\ choices = NoChoices
    /\ cronfile = NoCronFile
    /\ flow = NoFlow

Construct ==
    /\ config = NoConfig
    /\ config' = Config(args)
    /\ UNCHANGED <<args, file, verdicts, ticks, last, power, cronVars, schedVars, concVars, toolVars>>

NextConfig == Construct

SpecConfig == InitConfig /\ [][NextConfig]_vars

----------------------------------------------------------------------------
(* cpu_inactive as a function: any constructed Config, any record file *)

ClassifyArgs ==
    {a \in [cpu_idle_threshold : {5, 100},
            inactivity_threshold_mins : {0, 1, 2, 3, 15},
            loadavg_level_mins : {1, 15},
            ssh_check : {"False"}] : Constructed(Config(a))}

RECURSIVE SeqsUpTo(_, _)
SeqsUpTo(S, n) ==
    IF n = 0 THEN {<<>>}
    ELSE LET shorter == SeqsUpTo(S, n - 1)
         IN  shorter \cup {Append(q, x) : q \in shorter, x \in S}

ClassifyFaults == {"none", "read"}

InitClassify ==
    /\ args \in ClassifyArgs
    /\ config = Config(args)
    /\ \E pre \in SeqsUpTo(LoadStrings, MaxPre), exists \in BOOLEAN :
          /\ (~exists => pre = <<>>)
          /\ file = [exists |-> exists, lines |-> pre]
          /\ verdicts = [i \in 1..Len(pre) |-> "pre"]
    /\ ticks = <<>>
    /\ last = NoTick
    /\ power = "on"
    /\ cronargs = NoCron
    /\ first_run = NoTime
    /\ autooff = NoAutoOff
    /\ cron = NoSchedule
    /\ clock = NoClock
    /\ procs = NoProcs
    /\ choices = NoChoices
    /\ cronfile = NoCronFile
    /\ flow = NoFlow

Invoke(env) ==
    /\ Len(file.lines) < MaxLog
    /\ LET r == cpu_inactive(config, file.lines, env)
       IN  /\ file' = [exists |-> TRUE, lines |-> r.lines]
           /\ verdicts' = IF r.appended THEN Append(verdicts, r.msg) ELSE verdicts
           /\ last' = [ran |-> TRUE,
                       appended |-> r.appended,
                       env |-> env,
                       msg |-> r.msg,
                       pre |-> file.lines,
                       probed |-> FALSE,
                       ret |-> Returned(r.msg),
                       sampled |-> r.sampled,
                       shutdown |-> FALSE]
    /\ UNCHANGED <<args, config, ticks, power, cronVars, schedVars, concVars, toolVars>>

NextClassify ==
    \E s \in LoadStrings, f \in ClassifyFaults :
        Invoke([fault |-> f, load |-> s, ssh_open |-> FALSE])

SpecClassify == InitClassify /\ [][NextClassify]_vars

----------------------------------------------------------------------------
(* Claims about the classifier *)

AllFloat(lines) == \A i \in 1..Len(lines) : IsFloat(lines[i])

Idle(c, s) == IsFloat(s) /\ float(s) < c.cpu_idle_threshold
Busy(c, s) == IsFloat(s) /\ float(s) >= c.cpu_idle_threshold

\* the latest step was a completed call of cpu_inactive on a record of numbers
ClassifiedNumbers ==
    /\ last.ran /\ last.appended /\ last.env.fault = "none"
    /\ Constructed(config)
    /\ AllFloat(file.lines)

\* ShutdownApproved of the per-tick algorithm: the newest sample is idle, the
\* record holds num_periods entries, and none of the num_periods - 1 entries
\* before the newest one is busy
ApprovedByAlgorithm(c, lines) ==
    LET n == Len(lines)
    IN  /\ float(lines[n]) < c.cpu_idle_threshold
        /\ n >= c.num_periods
        /\ \A i \in (n - c.num_periods + 1)..(n - 1) :
              i >= 1 => float(lines[i]) < c.cpu_idle_threshold

\* C1: for every constructed Config and every record file, cpu_inactive
\* returns True exactly when the newest sample is idle, the record (new sample
\* included) holds at least num_periods entries and none of the
\* num_periods - 1 entries before the newest one is busy.
C1_ReturnsTrueIffApproved ==
    ClassifiedNumbers =>
        ((last.ret = "True") <=> ApprovedByAlgorithm(config, file.lines))

\* the same statement for the configurations with num_periods >= 1 only,
\* which the classifier satisfies
C1_ReturnsTrueIffApprovedPositive ==
    (ClassifiedNumbers /\ config.num_periods >= 1) =>
        ((last.ret = "True") <=> ApprovedByAlgorithm(config, file.lines))

\* the number of idle entries at the end of the record
RECURSIVE TrailingIdle(_, _)
TrailingIdle(c, lines) ==
    IF lines = <<>> \/ ~Idle(c, lines[Len(lines)]) THEN 0
    ELSE 1 + TrailingIdle(c, SubSeq(lines, 1, Len(lines) - 1))

\* the idle run at the end of the record starts at the empty record or right
\* after a busy sample
RunAfterBusyOrEmpty(c, lines) ==
    LET k == TrailingIdle(c, lines)
    IN  k = Len(lines) \/ Busy(c, lines[Len(lines) - k])

\* C3: on a record of numbers, with num_periods = N >= 1, counting the consecutive idle invocations
\* since a busy one (or since the empty record), the first N - 1 return False
\* with 'inside inactivity window' and the N-th returns True; a busy sample
\* returns False with 'system busy' and restarts the count; the samples
\* 0,1,0,0 with N = 2 give WithinWindow, Busy, WithinWindow, ShutdownApproved.
C3_NthConsecutiveIdleApproves ==
    (ClassifiedNumbers /\ config.num_periods >= 1) =>
        LET k == TrailingIdle(config, file.lines)
        IN  /\ Busy(config, last.env.load) => last.msg = "system busy"
            /\ (k >= 1 /\ RunAfterBusyOrEmpty(config, file.lines)) =>
                  /\ k < config.num_periods =>
                        last.msg = "inside inactivity window" /\ last.ret = "False"
                  /\ k = config.num_periods =>
                        last.msg = "shutting down machine" /\ last.ret = "True"
            /\ (/\ config.num_periods = 2 /\ config.cpu_idle_threshold = 5
                /\ file.lines = <<"0", "1", "0", "0">>
                /\ \A i \in 1..4 : verdicts[i] \notin {"pre", "IOError"}) =>
                  verdicts = <<"inside inactivity window", "system busy",
                               "inside inactivity window", "shutting down machine">>

C3_Witness ==
    /\ ClassifiedNumbers /\ config.num_periods = 2 /\ config.cpu_idle_threshold = 5
    /\ file.lines = <<"0", "1", "0", "0">>
    /\ verdicts = <<"inside inactivity window", "system busy",
                    "inside inactivity window", "shutting down machine">>

----------------------------------------------------------------------------
(* Claims about the trigger tick *)

\* the latest step was a tick that got as far as shutdown_approved
Decided == last.ran /\ Constructed(config)

\* C2: whenever shutdown_approved returns True at a tick, the load was below
\* cpu_idle_threshold at every one of the last num_periods trigger ticks, the
\* current one included and the ticks the SSH check vetoed counted.
C2_ApprovalMeansIdleTicks ==
    (Decided /\ last.ret = "True") =>
        /\ Len(ticks) >= config.num_periods
        /\ \A i \in (Len(ticks) - config.num_periods + 1)..Len(ticks) :
              i >= 1 => Idle(config, ticks[i])

\* C4: never fail open.  /usr/sbin/shutdown runs in a tick only if
\* shutdown_approved returned True in that tick; a tick in which the SSH
\* probe, the load-average read, the append or read of the record file, or
\* float() on a record entry raised ends without it.
C4_NeverFailOpen ==
    /\ last.ran =>
          /\ last.shutdown => last.ret = "True"
          /\ last.ret = "raised" => ~last.shutdown /\ power = "on"
          /\ last.msg \in {"CalledProcessError", "IOError", "ValueError",
                           "TypeError"} => last.ret = "raised"
    /\ power = "off" => last.ran /\ last.ret = "True"

C4_Witness ==
    /\ last.ran /\ last.msg = "ValueError" /\ last.appended
    /\ Constructed(config) /\ Idle(config, last.env.load)
    /\ ~last.shutdown /\ power = "on"

\* the SSH check of the latest tick tripped
Vetoed ==
    /\ Decided /\ config.ssh_check = "True"
    /\ last.env.ssh_open /\ last.env.fault # "ssh"

\* C5: when config.ssh_check is true and the probe reports an open
\* connection, shutdown_approved returns False without invoking the
\* classifier: the load average is not sampled and the record holds exactly
\* the lines it held before the tick.
C5_VetoLeavesRecordAlone ==
    Vetoed =>
        /\ last.ret = "False" /\ last.msg = "SSH connection open"
        /\ ~last.sampled /\ ~last.appended
        /\ file.lines = last.pre
        /\ Len(verdicts) = Len(file.lines)

C5_Witness ==
    /\ Vetoed /\ last.ret = "False" /\ file.lines = last.pre
    /\ Len(file.lines) >= 1 /\ Idle(config, last.env.load)

\* C6: shutdown_approved returns True if and only if (config.ssh_check is
\* false or the probe reports no open connection) and the classifier's verdict
\* on the record with this tick's sample is ShutdownApproved; when
\* config.ssh_check is false the probe is not consulted, so an open SSH
\* session does not block the approval.
C6_ApprovedIffNoVetoAndIdle ==
    (Decided /\ last.ret \in {"True", "False"}) =>
        /\ (last.ret = "True") <=>
              /\ (config.ssh_check = "False" \/ ~last.env.ssh_open)
              /\ cpu_inactive_verdict(config, Append(last.pre, last.env.load))
                    = "shutting down machine"
        /\ config.ssh_check = "False" => ~last.probed
        /\ config.ssh_check = "True" => last.probed

C6_Witness ==
    /\ Decided /\ config.ssh_check = "False" /\ last.env.ssh_open
    /\ last.ret = "True" /\ ~last.probed /\ config.num_periods >= 2

----------------------------------------------------------------------------
(* Claims about Config *)

\* m is an integer multiple of d
IsMultiple(m, d) == \E k \in -Max(m, -m)..Max(m, -m) : m = k * d

\* C8: construction fails, leaving no object, if ssh_check is not a boolean,
\* cpu_idle_threshold is outside [0,1], loadavg_level_mins is not one of 1, 5,
\* 15, or inactivity_threshold_mins is not a multiple of loadavg_level_mins;
\* it succeeds for every input that violates none of the four.
C8_ConstructionFailsIffInvalid ==
    config # NoConfig =>
        /\ Constructed(config) <=>
              /\ args.ssh_check \in {"True", "False"}
              /\ args.cpu_idle_threshold >= 0 /\ args.cpu_idle_threshold <= 100
              /\ args.loadavg_level_mins \in {1, 5, 15}
              /\ IsMultiple(args.inactivity_threshold_mins, args.loadavg_level_mins)
        /\ ~Constructed(config) => DOMAIN config = {"error"}
        /\ Constructed(config) =>
              /\ config.inactivity_threshold_mins = args.inactivity_threshold_mins
              /\ config.loadavg_level_mins = args.loadavg_level_mins
              /\ config.cpu_idle_threshold = args.cpu_idle_threshold
              /\ config.ssh_check = args.ssh_check

C8_Witness ==
    /\ config = [error |-> "ValueError"]
    /\ args.ssh_check = "True" /\ args.cpu_idle_threshold = -1
    /\ args.loadavg_level_mins = 15 /\ args.inactivity_threshold_mins = 30

\* C9: for every constructed Config, num_periods * loadavg_level_mins equals
\* inactivity_threshold_mins exactly, and an inactivity_threshold_mins with a
\* non-zero remainder modulo loadavg_level_mins makes construction fail.
C9_NumPeriodsExact ==
    config # NoConfig =>
        /\ Constructed(config) =>
              config.num_periods * config.loadavg_level_mins
                  = config.inactivity_threshold_mins
        /\ (/\ args.loadavg_level_mins > 0
            /\ args.inactivity_threshold_mins % args.loadavg_level_mins # 0) =>
              ~Constructed(config)

C9_Witness ==
    /\ Constructed(config) /\ config.num_periods = 6
    /\ config.loadavg_level_mins = 5 /\ config.inactivity_threshold_mins = 30

----------------------------------------------------------------------------
(* activate_cron.py: get_first_run_time *)

\* datetime.time(hour, minute) as minutes since 00:00
Minutes(t) == t.hour * 60 + t.minute

\* get_first_run_time with the set-back of the whole threshold
get_first_run_time_full_setback(shutdown_time, inactivity_threshold_mins, loadavg_level_mins) ==
    LET total == Minutes(shutdown_time) - inactivity_threshold_mins
    IN  IF total < 0 THEN [error |-> "ValueError"]
        ELSE [hour |-> (total % 1440) \div 60, minute |-> total % 60]

\* get_first_run_time with 00:00 itself refused
get_first_run_time_strict(shutdown_time, inactivity_threshold_mins, loadavg_level_mins) ==
    LET total == Minutes(shutdown_time)
                     - (inactivity_threshold_mins - loadavg_level_mins)
    IN  IF total <= 0 THEN [error |-> "ValueError"]
        ELSE [hour |-> (total % 1440) \div 60, minute |-> total % 60]

\* get_first_run_time: datetime(1, 1, 1, hour, minute) minus the set-back;
\* total is the result in minutes since datetime.min, below which the
\* subtraction overflows; .time() keeps the time of day
get_first_run_time(shutdown_time, inactivity_threshold_mins, loadavg_level_mins) ==
    LET total == Minutes(shutdown_time)
                     - (inactivity_threshold_mins - loadavg_level_mins)
    IN  IF total < 0 THEN [error |-> "ValueError"]
        ELSE [hour |-> (total % 1440) \div 60, minute |-> total % 60]

CronArgs ==
    [inactivity_threshold_mins : {0, 1, 2, 15, 30, 45, 60, 74, 75, 615, 630, 1440, 1454, 1455},
     loadavg_level_mins : {1, 5, 15},
     shutdown_time : [hour : {0, 1, 10, 18, 22, 23}, minute : {0, 15, 59}]]

InitCron ==
    /\ cronargs \in CronArgs
    /\ first_run = NoTime
    /\ autooff = NoAutoOff
    /\ cron = NoSchedule
    /\ clock = NoClock
    /\ args = NoArgs
    /\ config = NoConfig
    /\ procs = NoProcs
    /\ choices = NoChoices
    /\ cronfile = NoCronFile
    /\ flow = NoFlow
    /\ file = NoFile
    /\ verdicts = <<>>
    /\ ticks = <<>>
    /\ last = NoTick
    /\ power = "on"

FirstRunTime ==
    /\ first_run = NoTime
    /\ first_run' = get_first_run_time(cronargs.shutdown_time,
                                       cronargs.inactivity_threshold_mins,
                                       cronargs.loadavg_level_mins)
    /\ UNCHANGED <<cronargs, evalVars, schedVars, concVars, toolVars>>

NextCron == FirstRunTime

SpecCron == InitCron /\ [][NextCron]_vars

\* the set-back of the first run, in minutes
SetBack == cronargs.inactivity_threshold_mins - cronargs.loadavg_level_mins

\* C10: get_first_run_time returns the clock time shutdown_time minus
\* (inactivity_threshold_mins - loadavg_level_mins) minutes when that is not
\* before 00:00 of the same day, 00:00 itself allowed, and raises ValueError
\* exactly when it is before 00:00; it never returns a corrected time.
C10_FirstRunTimeOrValueError ==
    first_run # NoTime =>
        IF Minutes(cronargs.shutdown_time) < SetBack
        THEN first_run = [error |-> "ValueError"]
        ELSE /\ DOMAIN first_run = {"hour", "minute"}
             /\ first_run.hour \in 0..23 /\ first_run.minute \in 0..59
             /\ \E day \in {0, 1} :
                   Minutes(first_run) + 1440 * day + SetBack
                       = Minutes(cronargs.shutdown_time)
             /\ SetBack >= 0 =>
                   Minutes(first_run) + SetBack = Minutes(cronargs.shutdown_time)

C10_Witness ==
    /\ first_run = [hour |-> 0, minute |-> 0]
    /\ cronargs.shutdown_time = [hour |-> 10, minute |-> 0]
    /\ cronargs.inactivity_threshold_mins = 615
    /\ cronargs.loadavg_level_mins = 15

----------------------------------------------------------------------------
(* Overlapping evaluators: two processes of auto_off.py on one record file, *)
(* each a sequence of file-system and probe calls                           *)

ConcArgs ==
    [cpu_idle_threshold : {5},
     inactivity_threshold_mins : {15, 30},
     loadavg_level_mins : {15},
     ssh_check : {"True", "False"}]

ConcLoads == {"0", "1"}

InitConc ==
    /\ args \in ConcArgs
    /\ config = Config(args)
    /\ \E pre \in SeqsUpTo(ConcLoads, 1), exists \in BOOLEAN :
          /\ (~exists => pre = <<>>)
          /\ file = [exists |-> exists, lines |-> pre]
    /\ verdicts = <<>>
    /\ ticks = <<>>
    /\ last = NoTick
    /\ power = "on"
    /\ cronargs = NoCron
    /\ first_run = NoTime
    /\ autooff = NoAutoOff
    /\ cron = NoSchedule
    /\ clock = NoClock
    /\ procs = NoProcs
    /\ choices = NoChoices
    /\ cronfile = NoCronFile
    /\ flow = NoFlow

ConcFrame ==
    UNCHANGED <<args, config, verdicts, ticks, last, cronVars, schedVars, toolVars>>

\* cron starts an evaluator while the machine is up; a process that has
\* started takes its steps also after the other one has called the shutdown
\* command, which does not end it at once.  The lines the earlier runs of the
\* process appended stay on record (at, own).
\* routine: os.path.isfile(loadavg_record_filepath)
CStart(p) ==
    /\ power = "on" /\ procs[p].pc = "idle"
    /\ Len(file.lines) < MaxConc
    /\ procs' = [procs EXCEPT ![p] =
                    [NoProc EXCEPT !.pc = IF file.exists THEN "ssh" ELSE "create",
                                   !.at = procs[p].at,
                                   !.own = procs[p].own]]
    /\ UNCHANGED <<file, power>> /\ ConcFrame

\* routine: open(loadavg_record_filepath, "x"), which raises FileExistsError
\* when the other process has created the file in between
CCreate(p) ==
    /\ procs[p].pc = "create"
    /\ IF file.exists
       THEN /\ procs' = [procs EXCEPT ![p].pc = "idle", ![p].msg = "FileExistsError"]
            /\ UNCHANGED file
       ELSE /\ procs' = [procs EXCEPT ![p].pc = "ssh"]
            /\ file' = [exists |-> TRUE, lines |-> <<>>]
    /\ UNCHANGED power /\ ConcFrame

\* shutdown_approved: the SSH check
CSsh(p, ssh_open) ==
    /\ procs[p].pc = "ssh"
    /\ IF truthy(config.ssh_check) /\ ssh_open
       THEN procs' = [procs EXCEPT ![p].pc = "idle", ![p].msg = "SSH connection open"]
       ELSE procs' = [procs EXCEPT ![p].pc = "append"]
    /\ UNCHANGED <<file, power>> /\ ConcFrame

\* cpu_inactive: the append of the sample, one write on a file opened for
\* append.  The history of the step: the line written is one of the process's
\* own, and a process that has appended and not yet read the record back has
\* one more append of the other process between its two steps.
CAppend(p, env) ==
    /\ procs[p].pc = "append"
    /\ IF get_loadavg(env) = "raised"
       THEN /\ procs' = [procs EXCEPT ![p].pc = "idle", ![p].msg = "IOError"]
            /\ UNCHANGED file
       ELSE /\ procs' =
                  [q \in Procs |->
                      IF q = p
                      THEN [procs[p] EXCEPT
                               !.pc = "read",
                               !.at = Len(file.lines) + 1,
                               !.between = 0,
                               !.own = procs[p].own \cup
                                          {<<Len(file.lines) + 1, get_loadavg(env)>>},
                               !.sample = get_loadavg(env)]
                      ELSE IF procs[q].pc = "read"
                      THEN [procs[q] EXCEPT !.between = procs[q].between + 1]
                      ELSE procs[q]]
            /\ file' = [exists |-> TRUE,
                        lines |-> record_append(file.lines, get_loadavg(env))]
    /\ UNCHANGED power /\ ConcFrame

\* cpu_inactive: the read back of the record
CRead(p) ==
    /\ procs[p].pc = "read"
    /\ procs' = [procs EXCEPT ![p].pc = "classify", ![p].record = file.lines]
    /\ UNCHANGED <<file, power>> /\ ConcFrame

\* cpu_inactive: the verdict on the record read is logged and returned
\* through shutdown_approved to routine; the process ends unless the verdict
\* is True
CClassify(p) ==
    /\ procs[p].pc = "classify"
    /\ procs' = [procs EXCEPT
                    ![p].pc = IF Returned(cpu_inactive_verdict(config, procs[p].record))
                                    = "True"
                              THEN "shutdown" ELSE "idle",
                    ![p].msg = cpu_inactive_verdict(config, procs[p].record)]
    /\ UNCHANGED <<file, power>> /\ ConcFrame

\* routine: subprocess.run(["/usr/sbin/shutdown", "now"]), also when the
\* other process has called it already
CShutdown(p) ==
    /\ procs[p].pc = "shutdown"
    /\ procs' = [procs EXCEPT ![p].pc = "idle"]
    /\ power' = "off"
    /\ UNCHANGED file /\ ConcFrame

NextConc ==
    \E p \in Procs :
        \/ CStart(p)
        \/ CCreate(p)
        \/ \E ssh_open \in BOOLEAN : CSsh(p, ssh_open)
        \/ \E s \in ConcLoads, f \in {"none", "loadavg"} :
              CAppend(p, [fault |-> f, load |-> s, ssh_open |-> FALSE])
        \/ CRead(p)
        \/ CClassify(p)
        \/ CShutdown(p)

SpecConc == InitConc /\ [][NextConc]_vars

IsPrefix(s, t) == Len(s) <= Len(t) /\ SubSeq(t, 1, Len(s)) = s

\* C7: the record is append-only under every interleaving of the evaluator's
\* steps: a step never removes the file, the lines it held stay an unchanged
\* prefix, every append of a classifier invocation adds exactly its one sample
\* at the end, and a missing record is created empty, so that it holds exactly
\* the one new entry after the first append.
C7_RecordAppendOnly ==
    [][/\ file.exists => file'.exists
       /\ IsPrefix(file.lines, file'.lines)
       /\ Len(file'.lines) <= Len(file.lines) + 1
       /\ \A p \in Procs :
             (procs[p].pc = "append" /\ procs'[p].pc = "read") =>
                 file'.lines = Append(file.lines, procs'[p].sample)
       /\ (\A p \in Procs : ~(procs[p].pc = "append" /\ procs'[p].pc = "read")) =>
             file'.lines = file.lines
       /\ (~file.exists /\ file'.exists) => file'.lines = <<>>]_vars

\* both processes have appended before either has read the record back
C7_Witness ==
    /\ procs[1].pc = "read" /\ procs[2].pc = "read"
    /\ Len(file.lines) = 3
    /\ {file.lines[2], file.lines[3]} = {"0", "1"}
    /\ procs[1].sample # procs[2].sample

----------------------------------------------------------------------------
(* activate_cron.py: AutoOffConfig and build_cron_string.                   *)
(* The crontab text is held by its parts: a line is a record of its minute  *)
(* list, its hour field split at "-" (<<23>> for "23", <<21, 23>> for       *)
(* "21-23") and its command; the evaluator's command is held by the values  *)
(* of its flags.                                                            *)

\* _validate_config without the check that inactivity_threshold_mins is a
\* multiple of loadavg_level_mins
AutoOffConfig_validate_config_any_threshold(a) ==
    IF ~isinstance_bool(a.ssh_check) THEN "TypeError"
    ELSE IF ~isinstance_bool(a.default_shutdown_at_midnight) THEN "TypeError"
    ELSE IF a.cpu_idle_threshold > 100 \/ a.cpu_idle_threshold < 0
         THEN "ValueError"
    ELSE IF ~validate_loadavg_level(a.loadavg_level_mins) THEN "ValueError"
    ELSE ""

\* AutoOffConfig._validate_config: the exception it raises, "" when none;
\* shutdown_time is always a datetime.time here
AutoOffConfig_validate_config(a) ==
    IF ~isinstance_bool(a.ssh_check) THEN "TypeError"
    ELSE IF ~isinstance_bool(a.default_shutdown_at_midnight) THEN "TypeError"
    ELSE IF a.cpu_idle_threshold > 100 \/ a.cpu_idle_threshold < 0
         THEN "ValueError"
    ELSE IF ~validate_loadavg_level(a.loadavg_level_mins) THEN "ValueError"
    ELSE IF ~validate_inactivity_threshold(a.inactivity_threshold_mins,
                                           a.loadavg_level_mins)
         THEN "ValueError"
    ELSE ""

\* AutoOffConfig.__init__: validate, then derive routine_first_run_time
AutoOffConfig(a) ==
    IF AutoOffConfig_validate_config(a) # ""
    THEN [error |-> AutoOffConfig_validate_config(a)]
    ELSE LET t == get_first_run_time(a.shutdown_time,
                                     a.inactivity_threshold_mins,
                                     a.loadavg_level_mins)
         IN  IF ~Constructed(t) THEN [error |-> t.error]
             ELSE [cpu_idle_threshold |-> a.cpu_idle_threshold,
                   default_shutdown_at_midnight |-> a.default_shutdown_at_midnight,
                   inactivity_threshold_mins |-> a.inactivity_threshold_mins,
                   loadavg_level_mins |-> a.loadavg_level_mins,
                   routine_first_run_time |-> t,
                   shutdown_time |-> a.shutdown_time,
                   ssh_check |-> a.ssh_check]

\* list(range(start, stop, step)) for a positive step
PyRange(start, stop, step) ==
    LET n == IF stop <= start THEN 0 ELSE (stop - start + step - 1) \div step
    IN  [i \in 1..n |-> start + (i - 1) * step]

\* what version.properties holds: no file, text that is no version, or a
\* version (Version() strips the line end and a leading "v")
VersionFiles == {"missing", "junk", "1.2.3", "v1.2"}

\* parse_version_number, formatted into the command by str()
parse_version_number(version_file) ==
    CASE version_file = "missing" -> [error |-> "FileNotFoundError"]
      [] version_file = "junk" -> [error |-> "InvalidVersion"]
      [] version_file = "1.2.3" -> [version |-> "1.2.3"]
      [] version_file = "v1.2" -> [version |-> "1.2"]

AutoOffPaths == {"foo/auto_off"}

\* cron_general with --ssh whatever ssh_check is
cron_general_always_ssh(c, auto_off_path, version) ==
    [cpu_idle_threshold |-> c.cpu_idle_threshold,
     inactivity_threshold_mins |-> c.inactivity_threshold_mins,
     loadavg_level_mins |-> c.loadavg_level_mins,
     program |-> auto_off_path,
     ssh |-> TRUE,
     version |-> version]

\* cron_general: the command of the evaluator lines
cron_general(c, auto_off_path, version) ==
    [cpu_idle_threshold |-> c.cpu_idle_threshold,
     inactivity_threshold_mins |-> c.inactivity_threshold_mins,
     loadavg_level_mins |-> c.loadavg_level_mins,
     program |-> auto_off_path,
     ssh |-> truthy(c.ssh_check),
     version |-> version]

\* the command of the 00:00 line
ShutdownNow ==
    [program |-> "/usr/sbin/shutdown now"]

\* the 00:00 line
MidnightLine == [command |-> ShutdownNow, hours |-> <<0>>, minutes |-> <<0>>]

\* the hour branches without the branch of hour 22
cron_lines_no_22(start_hour, hr_1_minutes, all_minutes, command) ==
    LET cron_hr_1 == [command |-> command,
                      hours |-> <<start_hour>>,
                      minutes |-> hr_1_minutes]
    IN  IF start_hour = 23
        THEN <<cron_hr_1>>
        ELSE <<cron_hr_1,
               [command |-> command,
                hours |-> <<start_hour + 1, 23>>,
                minutes |-> all_minutes]>>

\* the hour branches of build_cron_string: the lines cron_hr_1 + cron_all
cron_lines(start_hour, hr_1_minutes, all_minutes, command) ==
    LET cron_hr_1 == [command |-> command,
                      hours |-> <<start_hour>>,
                      minutes |-> hr_1_minutes]
    IN  IF start_hour = 22
        THEN <<cron_hr_1,
               [command |-> command, hours |-> <<23>>, minutes |-> all_minutes]>>
        ELSE IF start_hour = 23
        THEN <<cron_hr_1>>
        ELSE <<cron_hr_1,
               [command |-> command,
                hours |-> <<start_hour + 1, 23>>,
                minutes |-> all_minutes]>>

\* build_cron_string with the first hour's minute list in every hour
build_cron_string_same_minutes(c, auto_off_path, version_file) ==
    LET v == parse_version_number(version_file)
        start_hour == c.routine_first_run_time.hour
        start_minute == c.routine_first_run_time.minute
        hr_1_minutes == PyRange(start_minute, 60, c.loadavg_level_mins)
        all_minutes ==
            hr_1_minutes
        evaluator == cron_lines(start_hour, hr_1_minutes, all_minutes,
                                cron_general(c, auto_off_path, v.version))
    IN  IF ~Constructed(v) THEN [error |-> v.error]
        ELSE IF truthy(c.default_shutdown_at_midnight)
        THEN [lines |-> evaluator \o <<MidnightLine>>]
        ELSE [lines |-> evaluator]

\* build_cron_string with the later hours' minute list begun at minute 0
build_cron_string_from_zero(c, auto_off_path, version_file) ==
    LET v == parse_version_number(version_file)
        start_hour == c.routine_first_run_time.hour
        start_minute == c.routine_first_run_time.minute
        hr_1_minutes == PyRange(start_minute, 60, c.loadavg_level_mins)
        all_minutes ==
            PyRange(0, 60, c.loadavg_level_mins)
        evaluator == cron_lines(start_hour, hr_1_minutes, all_minutes,
                                cron_general(c, auto_off_path, v.version))
    IN  IF ~Constructed(v) THEN [error |-> v.error]
        ELSE IF truthy(c.default_shutdown_at_midnight)
        THEN [lines |-> evaluator \o <<MidnightLine>>]
        ELSE [lines |-> evaluator]

\* build_cron_string with the 00:00 line whatever the object says
build_cron_string_always_midnight(c, auto_off_path, version_file) ==
    LET v == parse_version_number(version_file)
        start_hour == c.routine_first_run_time.hour
        start_minute == c.routine_first_run_time.minute
        hr_1_minutes == PyRange(start_minute, 60, c.loadavg_level_mins)
        all_minutes ==
            PyRange(hr_1_minutes[Len(hr_1_minutes)]
                        + c.loadavg_level_mins - 60,
                    60, c.loadavg_level_mins)
        evaluator == cron_lines(start_hour, hr_1_minutes, all_minutes,
                                cron_general(c, auto_off_path, v.version))
    IN  IF ~Constructed(v) THEN [error |-> v.error]
        ELSE [lines |-> evaluator \o <<MidnightLine>>]

\* build_cron_string for an AutoOffConfig object
build_cron_string(c, auto_off_path, version_file) ==
    LET v == parse_version_number(version_file)
        start_hour == c.routine_first_run_time.hour
        start_minute == c.routine_first_run_time.minute
        hr_1_minutes == PyRange(start_minute, 60, c.loadavg_level_mins)
        all_minutes ==
            PyRange(hr_1_minutes[Len(hr_1_minutes)]
                        + c.loadavg_level_mins - 60,
                    60, c.loadavg_level_mins)
        evaluator == cron_lines(start_hour, hr_1_minutes, all_minutes,
                                cron_general(c, auto_off_path, v.version))
    IN  IF ~Constructed(v) THEN [error |-> v.error]
        ELSE IF truthy(c.default_shutdown_at_midnight)
        THEN [lines |-> evaluator \o <<MidnightLine>>]
        ELSE [lines |-> evaluator]

\* the arguments AutoOffConfig is constructed from
AutoOffArgs ==
    [cpu_idle_threshold : {5, 101},
     default_shutdown_at_midnight : {"True", "False", "None"},
     inactivity_threshold_mins : {0, 7, 15, 30, 45, 1335},
     loadavg_level_mins : {1, 5, 10, 15},
     shutdown_time : [hour : {0, 10, 21, 22, 23}, minute : {0, 15, 59}],
     ssh_check : {"True", "False", "1"}]

InitSchedule ==
    /\ cronargs \in AutoOffArgs
    /\ autooff = NoAutoOff
    /\ cron = NoSchedule
    /\ clock = NoClock
    /\ first_run = NoTime
    /\ args = NoArgs
    /\ config = NoConfig
    /\ procs = NoProcs
    /\ choices = NoChoices
    /\ cronfile = NoCronFile
    /\ flow = NoFlow
    /\ file = NoFile
    /\ verdicts = <<>>
    /\ ticks = <<>>
    /\ last = NoTick
    /\ power = "on"

\* parse_config's last step: the AutoOffConfig is constructed
Configure ==
    /\ autooff = NoAutoOff
    /\ autooff' = AutoOffConfig(cronargs)
    /\ first_run' = IF Constructed(AutoOffConfig(cronargs))
                    THEN AutoOffConfig(cronargs).routine_first_run_time
                    ELSE first_run
    /\ UNCHANGED <<cronargs, cron, clock, evalVars, concVars, toolVars>>

\* __main__ of activate_cron.py: the schedule is compiled from the object
Compile(auto_off_path, version_file) ==
    /\ Constructed(autooff)
    /\ cron = NoSchedule
    /\ cron' = build_cron_string(autooff, auto_off_path, version_file)
    /\ UNCHANGED <<cronargs, first_run, autooff, clock, evalVars, concVars, toolVars>>

NextSchedule ==
    \/ Configure
    \/ \E p \in AutoOffPaths, v \in VersionFiles : Compile(p, v)

SpecSchedule == InitSchedule /\ [][NextSchedule]_vars

\* the schedule was compiled
Compiled == Constructed(autooff) /\ Constructed(cron)

----------------------------------------------------------------------------
(* What cron does with the compiled lines: a line fires in every minute     *)
(* whose hour is in its hour field and whose minute is in its minute list.  *)

CronHours(line) ==
    IF Len(line.hours) = 1 THEN {line.hours[1]}
    ELSE line.hours[1]..line.hours[2]

CronMinutes(line) == {line.minutes[i] : i \in 1..Len(line.minutes)}

\* the line fires at minute t of the day
Fires(line, t) == (t \div 60) \in CronHours(line) /\ (t % 60) \in CronMinutes(line)

\* the line runs the evaluator, not the shutdown command
IsEvaluator(line) == line.command.program # ShutdownNow.program

EvaluatorLines(c) == SelectSeq(c.lines, IsEvaluator)

DayMinutes == 0..1439

\* the minutes of the day at which the evaluator is run
EvaluatorInstants(c) ==
    {t \in DayMinutes :
        \E i \in 1..Len(c.lines) : IsEvaluator(c.lines[i]) /\ Fires(c.lines[i], t)}

\* the first-run time of the constructed object, in minutes of the day
FirstRun == Minutes(autooff.routine_first_run_time)

\* C11: for every constructed AutoOffConfig, routine_first_run_time is on the
\* day of shutdown_time and not later than it: the set-back
\* inactivity_threshold_mins - loadavg_level_mins leads from shutdown_time to
\* a time between 00:00 and shutdown_time, without a wrap.
C11_FirstRunSameDayNotLater ==
    Constructed(autooff) =>
        LET sd == Minutes(autooff.shutdown_time)
            total == sd - (autooff.inactivity_threshold_mins
                               - autooff.loadavg_level_mins)
        IN  /\ 0 <= total /\ total <= sd
            /\ FirstRun = total

\* C12: the evaluator lines fire exactly at first run + k * loadavg_level_mins
\* up to 23:59, and every minute list is non-empty, strictly ascending and
\* within 0..59.
C12_EvaluatorFiresOnProgression ==
    Compiled =>
        /\ EvaluatorInstants(cron) =
              {t \in DayMinutes :
                  t >= FirstRun /\ (t - FirstRun) % autooff.loadavg_level_mins = 0}
        /\ \A i \in 1..Len(cron.lines) :
              LET ms == cron.lines[i].minutes
              IN  IsEvaluator(cron.lines[i]) =>
                     /\ Len(ms) > 0
                     /\ \A k \in 1..Len(ms) : ms[k] \in 0..59
                     /\ \A k \in 1..(Len(ms) - 1) : ms[k] < ms[k + 1]

\* the schedule of the unit test: 21:00, 30 and 15 give "45 20" and
\* "0,15,30,45 21-23"
C12_Witness ==
    /\ Compiled
    /\ autooff.routine_first_run_time = [hour |-> 20, minute |-> 45]
    /\ Len(cron.lines) = 2
    /\ cron.lines[1].minutes = <<45>> /\ cron.lines[1].hours = <<20>>
    /\ cron.lines[2].minutes = <<0, 15, 30, 45>>
    /\ cron.lines[2].hours = <<21, 23>>

\* C13: no minute of the day is matched by more than one emitted line, the
\* 00:00 line included.
C13_WindowsDisjoint ==
    Compiled =>
        \A i, j \in 1..Len(cron.lines) :
            i < j => \A t \in DayMinutes :
                        ~(Fires(cron.lines[i], t) /\ Fires(cron.lines[j], t))

\* C14: the first line is anchored to the first-run hour; at hour 23 there
\* is no continuation line, at hour 22 the continuation line has the single
\* hour 23, otherwise it has the hour range first-run hour + 1 to 23.
C14_HourBranches ==
    Compiled =>
        LET h == autooff.routine_first_run_time.hour
            ev == EvaluatorLines(cron)
        IN  /\ Len(ev) >= 1 /\ ev[1].hours = <<h>>
            /\ h = 23 => Len(ev) = 1
            /\ h = 22 => Len(ev) = 2 /\ ev[2].hours = <<23>>
            /\ h < 22 => Len(ev) = 2 /\ ev[2].hours = <<h + 1, 23>>

\* a schedule whose first run is in hour 22
C14_Witness ==
    /\ Compiled
    /\ autooff.routine_first_run_time.hour = 22
    /\ Len(EvaluatorLines(cron)) = 2
    /\ EvaluatorLines(cron)[2].hours = <<23>>

\* C15: one or two evaluator lines come first; a last line at 00:00 that runs
\* the shutdown command itself is there exactly when
\* default_shutdown_at_midnight is true; one to three lines in all.
C15_MidnightLineLast ==
    Compiled =>
        LET n == Len(cron.lines)
            e == Len(EvaluatorLines(cron))
        IN  /\ n \in 1..3 /\ e \in 1..2
            /\ \A i \in 1..e : IsEvaluator(cron.lines[i])
            /\ n = e + (IF autooff.default_shutdown_at_midnight = "True"
                        THEN 1 ELSE 0)
            /\ \A i \in (e + 1)..n :
                  /\ i = n
                  /\ cron.lines[i].command.program = "/usr/sbin/shutdown now"
                  /\ {t \in DayMinutes : Fires(cron.lines[i], t)} = {0}

\* three lines, the last one the 00:00 shutdown
C15_Witness ==
    /\ Compiled
    /\ Len(cron.lines) = 3
    /\ autooff.default_shutdown_at_midnight = "True"
    /\ ~IsEvaluator(cron.lines[3])

\* C16: in the schedule repeated daily no two evaluator ticks are less than
\* loadavg_level_mins minutes apart, across midnight as well.
C16_TicksSpaced ==
    Compiled =>
        LET E == EvaluatorInstants(cron)
        IN  \A t \in E : \A d \in 1..(autooff.loadavg_level_mins - 1) :
                ((t + d) % 1440) \notin E

\* a schedule with ticks at 23:45 and at 00:00, exactly one level apart
C16_Witness ==
    /\ Compiled
    /\ autooff.loadavg_level_mins = 15
    /\ FirstRun = 0
    /\ 1425 \in EvaluatorInstants(cron)
    /\ 0 \in EvaluatorInstants(cron)

\* C19: the evaluator lines carry one command, with the object's
\* inactivity_threshold_mins, loadavg_level_mins and cpu_idle_threshold as
\* flag values and --ssh exactly when ssh_check is true.
C19_CommandEmbedsConfig ==
    Compiled =>
        \A i \in 1..Len(cron.lines) :
            LET cmd == cron.lines[i].command
            IN  IsEvaluator(cron.lines[i]) =>
                   /\ cmd = cron.lines[1].command
                   /\ cmd.inactivity_threshold_mins = autooff.inactivity_threshold_mins
                   /\ cmd.loadavg_level_mins = autooff.loadavg_level_mins
                   /\ cmd.cpu_idle_threshold = autooff.cpu_idle_threshold
                   /\ cmd.ssh = (autooff.ssh_check = "True")

\* two evaluator lines of an object without the SSH check
C19_Witness ==
    /\ Compiled
    /\ autooff.ssh_check = "False"
    /\ Len(EvaluatorLines(cron)) = 2
    /\ ~cron.lines[2].command.ssh

----------------------------------------------------------------------------
(* The compiled schedule at work: cron triggers the lines minute by minute, *)
(* the evaluator lines run auto_off.py's __main__ on the record file, the   *)
(* 00:00 line runs the shutdown command.                                    *)

\* the auto_off executable of the command line hands the flags to
\* auto_off.py's argument parser
auto_off_args(command) ==
    [cpu_idle_threshold |-> command.cpu_idle_threshold,
     inactivity_threshold_mins |-> command.inactivity_threshold_mins,
     loadavg_level_mins |-> command.loadavg_level_mins,
     ssh_check |-> IF command.ssh THEN "True" ELSE "False"]

\* the first minute after now in which a line of the schedule fires
NextFire(c, now) ==
    LET S == {t \in (now + 1)..(now + 1440) :
                 \E i \in 1..Len(c.lines) : Fires(c.lines[i], t % 1440)}
    IN  CHOOSE t \in S : \A u \in S : t <= u

\* the lines of the schedule that fire in minute t
Firing(c, t) == {i \in 1..Len(c.lines) : Fires(c.lines[i], t % 1440)}

DayArgs ==
    [cpu_idle_threshold : {5},
     default_shutdown_at_midnight : {"True", "False"},
     inactivity_threshold_mins : {15, 30, 45},
     loadavg_level_mins : {15},
     shutdown_time : {[hour |-> 0, minute |-> 15], [hour |-> 23, minute |-> 45]},
     ssh_check : {"True", "False"}]

DayVersionFiles == {"1.2.3", "missing"}

DayEnvs == [fault : {"none"}, load : {"0", "1"}, ssh_open : BOOLEAN]

InitDay ==
    /\ cronargs \in DayArgs
    /\ autooff = NoAutoOff
    /\ cron = NoSchedule
    /\ clock = NoClock
    /\ first_run = NoTime
    /\ args = NoArgs
    /\ config = NoConfig
    /\ procs = NoProcs
    /\ choices = NoChoices
    /\ cronfile = NoCronFile
    /\ flow = NoFlow
    /\ file = NoFile
    /\ verdicts = <<>>
    /\ ticks = <<>>
    /\ last = NoTick
    /\ power = "on"

\* cron runs an evaluator line; when the 00:00 line fires in the same minute
\* the machine goes down whatever the evaluator decided
EvaluatorTick(env) ==
    /\ Compiled
    /\ power = "on"
    /\ Len(ticks) < MaxTicks
    /\ LET t == NextFire(cron, clock)
       IN  \E i \in Firing(cron, t) :
              /\ IsEvaluator(cron.lines[i])
              /\ LET a == auto_off_args(cron.lines[i].command)
                     r == main(a, file, env)
                 IN  /\ args' = a
                     /\ config' = Config(a)
                     /\ file' = r.file
                     /\ verdicts' = IF r.appended THEN Append(verdicts, r.msg)
                                    ELSE verdicts
                     /\ last' = [ran |-> TRUE,
                                 appended |-> r.appended,
                                 env |-> env,
                                 msg |-> r.msg,
                                 pre |-> file.lines,
                                 probed |-> r.probed,
                                 ret |-> r.ret,
                                 sampled |-> r.sampled,
                                 shutdown |-> r.shutdown]
                     /\ power' = IF r.shutdown
                                    \/ \E j \in Firing(cron, t) :
                                          ~IsEvaluator(cron.lines[j])
                                 THEN "off" ELSE "on"
              /\ clock' = t
    /\ ticks' = Append(ticks, env.load)
    /\ UNCHANGED <<cronargs, first_run, autooff, cron, concVars, toolVars>>

\* where a run of the evaluator can be ended from outside: after routine
\* created the record, after the SSH probe, after the load was read, after
\* the sample was written, after the verdict was logged (logging.info comes
\* before the return), after shutdown_approved returned
CutPoints == {"created", "probed", "sampled", "appended", "logged", "returned"}

\* the run comes to the point: a veto of the SSH check ends it before the
\* load is read
cut_reached(a, f, env, point) ==
    CASE point = "created" -> TRUE
      [] point = "probed" -> main(a, f, env).probed
      [] point = "sampled" -> main(a, f, env).sampled
      [] point = "appended" -> main(a, f, env).appended
      [] point = "logged" -> main(a, f, env).ret # "raised"
      [] point = "returned" -> TRUE

\* what a run of __main__ has done when it is ended at the point: the
\* effects of main up to there, no message before the verdict is logged,
\* nothing returned before shutdown_approved returns, and never the shutdown
\* command
main_cut(a, f, env, point) ==
    LET r == main(a, f, env)
    IN  [appended |-> r.appended /\ point \in {"appended", "logged", "returned"},
         file |-> IF point \in {"appended", "logged", "returned"}
                          \/ ~Constructed(Config(a))
                  THEN r.file
                  ELSE [exists |-> TRUE, lines |-> f.lines],
         msg |-> IF point \in {"logged", "returned"} THEN r.msg ELSE "",
         probed |-> r.probed /\ point # "created",
         ret |-> IF point = "returned" THEN r.ret ELSE "",
         sampled |-> r.sampled
                       /\ point \in {"sampled", "appended", "logged", "returned"},
         shutdown |-> FALSE]

\* cron runs an evaluator line and the 00:00 line in the same minute, and
\* the shutdown command ends the evaluator before it is through
EvaluatorCutShort(env, point) ==
    /\ Compiled
    /\ power = "on"
    /\ Len(ticks) < MaxTicks
    /\ LET t == NextFire(cron, clock)
       IN  \E i \in Firing(cron, t) :
              /\ IsEvaluator(cron.lines[i])
              /\ \E j \in Firing(cron, t) : ~IsEvaluator(cron.lines[j])
              /\ Constructed(Config(auto_off_args(cron.lines[i].command)))
              /\ LET a == auto_off_args(cron.lines[i].command)
                     r == main_cut(a, file, env, point)
                 IN  /\ cut_reached(a, file, env, point)
                     /\ args' = a
                     /\ config' = Config(a)
                     /\ file' = r.file
                     /\ verdicts' = IF r.appended THEN Append(verdicts, r.msg)
                                    ELSE verdicts
                     /\ last' = [ran |-> TRUE,
                                 appended |-> r.appended,
                                 env |-> env,
                                 msg |-> r.msg,
                                 pre |-> file.lines,
                                 probed |-> r.probed,
                                 ret |-> r.ret,
                                 sampled |-> r.sampled,
                                 shutdown |-> r.shutdown]
              /\ clock' = t
    /\ power' = "off"
    /\ ticks' = Append(ticks, env.load)
    /\ UNCHANGED <<cronargs, first_run, autooff, cron, concVars, toolVars>>

\* cron runs the 00:00 line: /usr/sbin/shutdown now
MidnightShutdown ==
    /\ Compiled
    /\ power = "on"
    /\ LET t == NextFire(cron, clock)
       IN  /\ \E j \in Firing(cron, t) : ~IsEvaluator(cron.lines[j])
           /\ clock' = t
    /\ power' = "off"
    /\ UNCHANGED <<args, config, file, verdicts, ticks, last,
                   cronargs, first_run, autooff, cron, concVars, toolVars>>

NextDay ==
    \/ Configure
    \/ \E p \in AutoOffPaths, v \in DayVersionFiles : Compile(p, v)
    \/ \E env \in DayEnvs : EvaluatorTick(env)
    \/ \E env \in DayEnvs, point \in CutPoints : EvaluatorCutShort(env, point)
    \/ MidnightShutdown
    \/ \E keep \in BOOLEAN : Boot(keep)

SpecDay == InitDay /\ [][NextDay]_vars

\* the minute of the day of the latest trigger
ClockMinute == clock % 1440

\* C17: the evaluator never approves a shutdown at a tick before the
\* shutdown_time of that day, whatever the record file holds from earlier
\* ticks, those of the day before included.
C17_NoApprovalBeforeShutdownTime ==
    (Compiled /\ last.ran /\ last.ret = "True") =>
        ClockMinute >= Minutes(autooff.shutdown_time)

\* the evaluator ran, to its verdict, at every compiled tick since the first
\* run of day 0, on a record file that was empty, found no SSH connection and
\* sampled an idle load every time
IdleRun ==
    /\ Compiled
    /\ Len(ticks) >= 1
    /\ \A k \in 1..Len(ticks) : ticks[k] = "0"
    /\ Len(verdicts) = Len(ticks)
    /\ \A k \in 1..Len(verdicts) : verdicts[k] # ""
    /\ file.lines = ticks
    /\ clock = FirstRun + (Len(ticks) - 1) * autooff.loadavg_level_mins

\* C18: in such a run of an object with inactivity_threshold_mins >=
\* loadavg_level_mins the first approval is the one of the tick at
\* shutdown_time, which is the num_periods-th tick.
C18_FirstApprovalAtShutdownTime ==
    (IdleRun /\ autooff.inactivity_threshold_mins >= autooff.loadavg_level_mins) =>
        LET L == autooff.loadavg_level_mins
            sd == Minutes(autooff.shutdown_time)
            N == autooff.inactivity_threshold_mins \div L
        IN  /\ \A k \in 1..Len(verdicts) :
                  /\ verdicts[k] = "shutting down machine"
                        => FirstRun + (k - 1) * L >= sd
                  /\ FirstRun + (k - 1) * L = sd
                        => (k = N /\ verdicts[k] = "shutting down machine")
            /\ (last.ran /\ clock = sd)
                  => (last.ret = "True" /\ last.shutdown /\ power = "off")
            /\ (last.ran /\ clock < sd) =>
                  /\ last.ret \in {"False", ""}
                  /\ last.msg # "shutting down machine"

\* three idle ticks at 23:15, 23:30 and 23:45; the third one approves
C18_Witness ==
    /\ IdleRun
    /\ autooff.inactivity_threshold_mins = 45
    /\ autooff.shutdown_time = [hour |-> 23, minute |-> 45]
    /\ Len(ticks) = 3
    /\ clock = 1425
    /\ last.shutdown

----------------------------------------------------------------------------
(* One evaluation on any record file: what shutdown_approved logs *)

ApproveArgs ==
    [cpu_idle_threshold : {5},
     inactivity_threshold_mins : {15, 30},
     loadavg_level_mins : {15},
     ssh_check : {"True", "False"}]

ApproveEnvs == [fault : Faults, load : LoadStrings, ssh_open : BOOLEAN]

InitApprove ==
    /\ args \in ApproveArgs
    /\ config = NoConfig
    /\ \E pre \in SeqsUpTo(LoadStrings, MaxPre), exists \in BOOLEAN :
          /\ (~exists => pre = <<>>)
          /\ file = [exists |-> exists, lines |-> pre]
          /\ verdicts = [i \in 1..Len(pre) |-> "pre"]
    /\ ticks = <<>>
    /\ last = NoTick
    /\ power = "on"
    /\ cronargs = NoCron
    /\ first_run = NoTime
    /\ autooff = NoAutoOff
    /\ cron = NoSchedule
    /\ clock = NoClock
    /\ procs = NoProcs
    /\ choices = NoChoices
    /\ cronfile = NoCronFile
    /\ flow = NoFlow

\* the one trigger tick of this specification
Evaluate(env) ==
    /\ ~last.ran
    /\ Tick(env)

NextApprove == \E env \in ApproveEnvs : Evaluate(env)

SpecApprove == InitApprove /\ [][NextApprove]_vars

\* the call of shutdown_approved returned, True or False
Completed == last.ran /\ Constructed(config) /\ last.ret \in {"True", "False"}

\* C20: a completed call of shutdown_approved logs one of the four verdict
\* messages; "system busy" exactly when the call sampled a load that is >=
\* cpu_idle_threshold (equal counts as busy, the history does not matter);
\* "shutting down machine" exactly when the call returns True.
C20_VerdictMessages ==
    Completed =>
        /\ last.msg \in {"SSH connection open", "system busy",
                         "inside inactivity window", "shutting down machine"}
        /\ (last.msg = "system busy")
              <=> (last.sampled /\ float(last.env.load) >= config.cpu_idle_threshold)
        /\ (last.msg = "shutting down machine") <=> (last.ret = "True")
        /\ (last.ret = "True") <=> last.shutdown

\* a sample equal to the threshold after an idle history is logged as busy
C20_Witness ==
    /\ Completed
    /\ last.env.load = "0.05" /\ config.cpu_idle_threshold = 5
    /\ last.pre = <<"0", "0">>
    /\ last.msg = "system busy"
    /\ last.ret = "False"

----------------------------------------------------------------------------
(* The classifier over two logs *)

\* the last k entries of a log, none for k <= 0
Trailing(lines, k) ==
    IF k <= 0 THEN <<>> ELSE SubSeq(lines, Max(1, Len(lines) - k + 1), Len(lines))

\* the logs the second run is given
OtherLogs == SeqsUpTo(LoadStrings, MaxLog - 1)

\* both logs hold at least num_periods - 1 earlier entries and agree on their
\* last num_periods - 1 entries
SameWindow(c, one, other) ==
    /\ Len(one) >= c.num_periods - 1
    /\ Len(other) >= c.num_periods - 1
    /\ Trailing(one, c.num_periods - 1) = Trailing(other, c.num_periods - 1)

\* C21: the verdict of cpu_inactive is a function of the trailing window only:
\* for every constructed Config, a second run given the same new sample over a
\* log that, like the log of the run just made, holds at least
\* num_periods - 1 earlier entries and agrees with it on the last
\* num_periods - 1 of them returns the verdict of the run just made, however
\* the older entries differ; in particular a second run over the identical
\* log does.
C21_VerdictFromWindowOnly ==
    (last.ran /\ Constructed(config)) =>
        \A other \in OtherLogs :
            SameWindow(config, last.pre, other) =>
                cpu_inactive(config, other, last.env).msg = last.msg

\* the same statement for the configurations with num_periods >= 1 only,
\* which the classifier satisfies
C21_VerdictFromWindowOnlyPositive ==
    (last.ran /\ Constructed(config) /\ config.num_periods >= 1) =>
        \A other \in OtherLogs :
            SameWindow(config, last.pre, other) =>
                cpu_inactive(config, other, last.env).msg = last.msg

----------------------------------------------------------------------------
(* activate_cron.py: get_inactivity_threshold_choices and the prompt that   *)
(* offers its result                                                        *)

MaxThreshold == 1470   \* the inactivity thresholds looked at: 1..MaxThreshold

\* str(i) of a non-negative int: its decimal digits
RECURSIVE str(_)
str(i) == IF i < 10 THEN <<i>> ELSE Append(str(i \div 10), i % 10)

\* int(s) of a string of decimal digits
RECURSIVE int(_)
int(s) ==
    IF Len(s) = 1 THEN s[1]
    ELSE 10 * int(SubSeq(s, 1, Len(s) - 1)) + s[Len(s)]

\* get_inactivity_threshold_choices with the range ending at the shutdown time
get_inactivity_threshold_choices_to_shutdown(loadavg_level_mins, shutdown_time) ==
    LET r == PyRange(loadavg_level_mins,
                     shutdown_time.hour * 60 + shutdown_time.minute + 1,
                     loadavg_level_mins)
    IN  [i \in 1..Len(r) |-> str(r[i])]

\* get_inactivity_threshold_choices: str(i) for i in range(...)
get_inactivity_threshold_choices(loadavg_level_mins, shutdown_time) ==
    LET r == PyRange(loadavg_level_mins,
                     shutdown_time.hour * 60 + shutdown_time.minute
                         + loadavg_level_mins + 1,
                     loadavg_level_mins)
    IN  [i \in 1..Len(r) |-> str(r[i])]

\* the answers to the shutdown-time and loadavg-level prompts of parse_config
ChoiceArgs ==
    [inactivity_threshold_mins : {0},
     loadavg_level_mins : {1, 5, 15},
     shutdown_time : [hour : {0, 1, 10, 23}, minute : {0, 1, 14, 15, 30, 59}]]

InitChoices ==
    /\ cronargs \in ChoiceArgs
    /\ choices = NoChoices
    /\ first_run = NoTime
    /\ autooff = NoAutoOff
    /\ cron = NoSchedule
    /\ clock = NoClock
    /\ args = NoArgs
    /\ config = NoConfig
    /\ file = NoFile
    /\ verdicts = <<>>
    /\ ticks = <<>>
    /\ last = NoTick
    /\ power = "on"
    /\ procs = NoProcs
    /\ cronfile = NoCronFile
    /\ flow = NoFlow

\* parse_config: the choices are computed from the two answers
Offer ==
    /\ choices = NoChoices
    /\ choices' = get_inactivity_threshold_choices(cronargs.loadavg_level_mins,
                                                   cronargs.shutdown_time)
    /\ UNCHANGED <<cronargs, first_run, cronfile, flow, evalVars, schedVars, concVars>>

\* parse_config: the user answers the inactivity-threshold prompt with one of
\* the choices, and AutoOffConfig.__init__ computes the first run time of it
Choose(i) ==
    /\ choices # NoChoices
    /\ first_run = NoTime
    /\ i \in 1..Len(choices)
    /\ cronargs' = [cronargs EXCEPT !.inactivity_threshold_mins = int(choices[i])]
    /\ first_run' = get_first_run_time(cronargs.shutdown_time,
                                       int(choices[i]),
                                       cronargs.loadavg_level_mins)
    /\ UNCHANGED <<choices, cronfile, flow, evalVars, schedVars, concVars>>

NextChoices ==
    \/ Offer
    \/ \E i \in 1..MaxThreshold : Choose(i)

SpecChoices == InitChoices /\ [][NextChoices]_vars

\* the thresholds the choices stand for
Offered == {int(choices[i]) : i \in 1..Len(choices)}

\* the positive multiples of loadavg_level_mins for which get_first_run_time
\* does not raise
Admissible ==
    {m \in 1..MaxThreshold :
        /\ m % cronargs.loadavg_level_mins = 0
        /\ Constructed(get_first_run_time(cronargs.shutdown_time, m,
                                          cronargs.loadavg_level_mins))}

\* the threshold the last choice stands for
Largest == int(choices[Len(choices)])

\* C22: for every shutdown time and loadavg_level_mins in {1, 5, 15},
\* get_inactivity_threshold_choices returns exactly the positive multiples of
\* loadavg_level_mins for which get_first_run_time does not raise, each once:
\* the largest choice gives a first-run time no later than that of any
\* admissible multiple, the next multiple beyond it makes get_first_run_time
\* raise ValueError, and the choice the user takes gives a first-run time on
\* the day of the shutdown time, the set-back before it.
C22_ChoicesAreTheAdmissibleMultiples ==
    /\ (choices # NoChoices /\ first_run = NoTime) =>
          /\ Offered = Admissible
          /\ Cardinality(Offered) = Len(choices)
          /\ \A m \in Admissible :
                Minutes(get_first_run_time(cronargs.shutdown_time, Largest,
                                           cronargs.loadavg_level_mins))
                  <= Minutes(get_first_run_time(cronargs.shutdown_time, m,
                                                cronargs.loadavg_level_mins))
          /\ get_first_run_time(cronargs.shutdown_time,
                                Largest + cronargs.loadavg_level_mins,
                                cronargs.loadavg_level_mins)
                = [error |-> "ValueError"]
    /\ (choices # NoChoices /\ first_run # NoTime) =>
          /\ Constructed(first_run)
          /\ Minutes(first_run) = Minutes(cronargs.shutdown_time) - SetBack
          /\ Minutes(first_run) >= 0

\* the choices for 10:00 and a level of 15 were offered, "615" the last, and
\* the user took "615": the first run is at 00:00
C22_Witness ==
    /\ cronargs.shutdown_time = [hour |-> 10, minute |-> 0]
    /\ cronargs.loadavg_level_mins = 15
    /\ cronargs.inactivity_threshold_mins = 615
    /\ Len(choices) = 41
    /\ choices[1] = <<1, 5>> /\ choices[41] = <<6, 1, 5>>
    /\ first_run = [hour |-> 0, minute |-> 0]

----------------------------------------------------------------------------
(* The two configuration classes: what activate_cron.py accepts and writes  *)
(* into the command, auto_off.py must construct a Config from               *)

\* __main__ of auto_off.py: the Config built from the parsed flag values
CommandConfig(command) ==
    Config([cpu_idle_threshold |-> command.cpu_idle_threshold,
            inactivity_threshold_mins |-> command.inactivity_threshold_mins,
            loadavg_level_mins |-> command.loadavg_level_mins,
            ssh_check |-> IF command.ssh THEN "True" ELSE "False"])

\* C23: every parameter set AutoOffConfig accepts, Config accepts: for a
\* constructed AutoOffConfig whose schedule was compiled, the Config built
\* from the flag values of every evaluator command constructs without error,
\* carries the object's values, and has
\* num_periods = inactivity_threshold_mins / loadavg_level_mins exactly.
C23_AcceptedByEvaluatorConfig ==
    Compiled =>
        \A i \in 1..Len(cron.lines) :
            IsEvaluator(cron.lines[i]) =>
                LET c == CommandConfig(cron.lines[i].command)
                IN  /\ Constructed(c)
                    /\ c.inactivity_threshold_mins = autooff.inactivity_threshold_mins
                    /\ c.loadavg_level_mins = autooff.loadavg_level_mins
                    /\ c.cpu_idle_threshold = autooff.cpu_idle_threshold
                    /\ c.ssh_check = autooff.ssh_check
                    /\ c.num_periods * autooff.loadavg_level_mins
                           = autooff.inactivity_threshold_mins

\* a compiled schedule for 45 minutes at level 15: the evaluator's Config has
\* three periods
C23_Witness ==
    /\ Compiled
    /\ autooff.inactivity_threshold_mins = 45
    /\ autooff.loadavg_level_mins = 15
    /\ IsEvaluator(cron.lines[1])
    /\ CommandConfig(cron.lines[1].command).num_periods = 3

----------------------------------------------------------------------------
(* A tick whose read of the load average fails *)

\* the latest tick reached the classifier and get_loadavg raised in it
LoadReadFailed ==
    /\ Decided
    /\ last.env.fault = "loadavg"
    /\ ~(truthy(config.ssh_check) /\ last.env.ssh_open)

\* the record file as it may have been before the latest tick
FileBefore == {[exists |-> e, lines |-> last.pre] : e \in BOOLEAN}

\* C24: when the read of the load average fails during a tick the record is
\* left as it was: no line, not even an empty one, is appended, the tick
\* produces no verdict and no shutdown, and whatever the next tick finds, it
\* does and logs what it would have done and logged had the failed tick not
\* run.
C24_FailedReadLeavesLogAlone ==
    LoadReadFailed =>
        /\ file.lines = last.pre
        /\ ~last.appended /\ ~last.sampled
        /\ last.ret = "raised" /\ ~last.shutdown
        /\ last.msg \notin {"shutting down machine", "inside inactivity window",
                            "system busy", "SSH connection open"}
        /\ Len(verdicts) = Len(file.lines)
        /\ \A env \in TickEnvs, before \in FileBefore :
              /\ main(args, file, env).msg = main(args, before, env).msg
              /\ main(args, file, env).ret = main(args, before, env).ret
              /\ main(args, file, env).shutdown = main(args, before, env).shutdown
              /\ main(args, file, env).file = main(args, before, env).file

\* the second tick could not read the load average: the record holds the one
\* sample of the first tick
C24_Witness ==
    /\ LoadReadFailed
    /\ Len(ticks) = 2
    /\ last.pre = <<"0">>
    /\ file.lines = <<"0">>

----------------------------------------------------------------------------
(* Overlapping evaluators: whose sample a process classifies as the newest *)

\* the process has read the record back in the run it is in or has ended
HasRead(p) ==
    \/ procs[p].pc = "classify"
    \/ procs[p].pc \in {"idle", "shutdown"} /\ procs[p].record # <<>>

Other(p) == CHOOSE q \in Procs : q # p

\* the other process appended between the append of p and its read back
Overtaken(p) == procs[p].between > 0

\* C25 as claimed: under every interleaving of two evaluation processes on
\* one record file, the entry a process classifies as the newest sample is
\* the entry that process appended itself.
C25_NewestIsOwnSample ==
    \A p \in Procs :
        procs[p].pc = "classify" => Len(procs[p].record) = procs[p].at

\* C25: under every interleaving of two evaluation processes on one record
\* file, the record a process reads back holds the sample it appended at the
\* line it appended it, followed by exactly the samples the other process
\* appended between that append and the read back, and nothing of it is lost
\* from the file.  So the newest entry, the one the process classifies as the
\* newest sample, is its own exactly when the other process appended nothing
\* in between; when the other did, every entry after the process's own, the
\* newest among them, is a sample the other process appended at that line,
\* and the process logs "system busy" exactly when that newest entry is busy,
\* whatever its own sample was.
C25_NewestIsOwnIffNotOvertaken ==
    \A p \in Procs :
        HasRead(p) =>
            LET rec == procs[p].record
                n == Len(procs[p].record)
                at == procs[p].at
            IN  /\ at \in 1..n
                /\ rec[at] = procs[p].sample
                /\ <<at, rec[at]>> \in procs[p].own
                /\ IsPrefix(rec, file.lines)
                /\ n = at + procs[p].between
                /\ (<<n, rec[n]>> \in procs[p].own) <=> ~Overtaken(p)
                /\ \A k \in (at + 1)..n :
                      /\ <<k, rec[k]>> \in procs[Other(p)].own
                      /\ <<k, rec[k]>> \notin procs[p].own
                /\ procs[p].pc # "classify" =>
                      (procs[p].msg = "system busy"
                          <=> float(rec[n]) >= config.cpu_idle_threshold)

\* process 1 appended "0", process 2 appended "1" before process 1 read the
\* record back: process 1 classified the "1" of process 2 as the newest
\* sample and logged "system busy" on its own idle sample
C25_Witness ==
    /\ procs[1].pc = "idle" /\ procs[1].msg = "system busy"
    /\ procs[1].sample = "0"
    /\ procs[1].between = 1
    /\ Len(procs[1].record) = procs[1].at + 1
    /\ procs[1].record[Len(procs[1].record)] = "1"
    /\ <<Len(procs[1].record), "1">> \in procs[2].own

----------------------------------------------------------------------------
(* activate_cron.py: __main__, one run of the tool on the cron file.  The   *)
(* cron file holds the text written to it, kept by its lines as the         *)
(* schedule is; a KeyboardInterrupt can arrive before any statement.        *)

\* the answers parse_config collects; its prompts admit valid values only
MainArgs ==
    [cpu_idle_threshold : {5},
     default_shutdown_at_midnight : {"True", "False"},
     inactivity_threshold_mins : {15, 30},
     loadavg_level_mins : {15},
     shutdown_time : {[hour |-> 10, minute |-> 0], [hour |-> 23, minute |-> 45]},
     ssh_check : {"True", "False"}]

\* the answers of an earlier run
OldArgs ==
    [cpu_idle_threshold |-> 5,
     default_shutdown_at_midnight |-> "True",
     inactivity_threshold_mins |-> 30,
     loadavg_level_mins |-> 15,
     shutdown_time |-> [hour |-> 18, minute |-> 0],
     ssh_check |-> "True"]

\* the cron file before the run: none, one left by an earlier run, or one
\* holding the 00:00 line only
OldCronFiles ==
    {NoCronFile,
     [exists |-> TRUE,
      lines |-> build_cron_string(AutoOffConfig(OldArgs), "foo/auto_off", "1.2.3").lines],
     [exists |-> TRUE, lines |-> <<MidnightLine>>]}

InitMain ==
    /\ cronargs \in MainArgs
    /\ cronfile \in OldCronFiles
    /\ flow = [pc |-> "start", enable |-> FALSE, pre |-> cronfile]
    /\ autooff = NoAutoOff
    /\ cron = NoSchedule
    /\ clock = NoClock
    /\ first_run = NoTime
    /\ choices = NoChoices
    /\ args = NoArgs
    /\ config = NoConfig
    /\ file = NoFile
    /\ verdicts = <<>>
    /\ ticks = <<>>
    /\ last = NoTick
    /\ power = "on"
    /\ procs = NoProcs

MainFrame == UNCHANGED <<cronargs, first_run, clock, choices, evalVars, concVars>>

\* enable_auto_off: the user answers the prompt
MainAsk(enable) ==
    /\ flow.pc = "start"
    /\ flow' = [flow EXCEPT !.pc = IF enable THEN "parse_config" ELSE "deactivate_cron",
                            !.enable = enable]
    /\ UNCHANGED <<autooff, cron, cronfile>> /\ MainFrame

\* parse_config: the AutoOffConfig is constructed from the answers, or
\* parsing_validation raises
MainParseConfig ==
    /\ flow.pc = "parse_config"
    /\ autooff' = AutoOffConfig(cronargs)
    /\ flow' = [flow EXCEPT !.pc = IF Constructed(AutoOffConfig(cronargs))
                                   THEN "deactivate_cron" ELSE "raised"]
    /\ UNCHANGED <<cron, cronfile>> /\ MainFrame

\* deactivate_cron: os.remove, a missing file is no error
deactivate_cron(f) == NoCronFile

\* deactivate_cron, in the enable and in the disable branch
MainDeactivateCron ==
    /\ flow.pc = "deactivate_cron"
    /\ cronfile' = deactivate_cron(cronfile)
    /\ flow' = [flow EXCEPT !.pc = IF flow.enable THEN "build_cron_string" ELSE "print"]
    /\ UNCHANGED <<autooff, cron>> /\ MainFrame

\* build_cron_string: the argument of activate_cron is evaluated; an
\* exception of parse_version_number is not caught
MainBuildCronString(auto_off_path, version_file) ==
    /\ flow.pc = "build_cron_string"
    /\ cron' = build_cron_string(autooff, auto_off_path, version_file)
    /\ flow' = [flow EXCEPT !.pc =
                   IF Constructed(build_cron_string(autooff, auto_off_path, version_file))
                   THEN "activate_cron" ELSE "raised"]
    /\ UNCHANGED <<autooff, cronfile>> /\ MainFrame

\* activate_cron: open(cron_filepath, "x") and the write; the result is the
\* file, or the exception
activate_cron(cron_string, f) ==
    IF f.exists THEN [error |-> "FileExistsError"]
    ELSE [exists |-> TRUE, lines |-> cron_string.lines]

MainActivateCron ==
    /\ flow.pc = "activate_cron"
    /\ IF Constructed(activate_cron(cron, cronfile))
       THEN /\ cronfile' = activate_cron(cron, cronfile)
            /\ flow' = [flow EXCEPT !.pc = "print"]
       ELSE /\ UNCHANGED cronfile
            /\ flow' = [flow EXCEPT !.pc = "raised"]
    /\ UNCHANGED <<autooff, cron>> /\ MainFrame

\* print("Auto-off enabled") or print("Auto-off disabled"), the last
\* statement inside the try
MainPrint ==
    /\ flow.pc = "print"
    /\ flow' = [flow EXCEPT !.pc = "done"]
    /\ UNCHANGED <<autooff, cron, cronfile>> /\ MainFrame

\* KeyboardInterrupt before the statement the run is at, any statement of
\* the try: the handler prints its message and the run ends
MainInterrupt ==
    /\ flow.pc \in {"start", "parse_config", "deactivate_cron",
                    "build_cron_string", "activate_cron", "print"}
    /\ flow' = [flow EXCEPT !.pc = "aborted"]
    /\ UNCHANGED <<autooff, cron, cronfile>> /\ MainFrame

\* KeyboardInterrupt inside activate_cron, after open(cron_filepath, "x")
\* created the file: before the write (the file is closed empty) or after it
MainInterruptActivate(written) ==
    /\ flow.pc = "activate_cron"
    /\ ~cronfile.exists
    /\ cronfile' = [exists |-> TRUE,
                    lines |-> IF written THEN cron.lines ELSE <<>>]
    /\ flow' = [flow EXCEPT !.pc = "aborted"]
    /\ UNCHANGED <<autooff, cron>> /\ MainFrame

NextMain ==
    \/ \E enable \in BOOLEAN : MainAsk(enable)
    \/ MainParseConfig
    \/ MainDeactivateCron
    \/ \E p \in AutoOffPaths, v \in VersionFiles : MainBuildCronString(p, v)
    \/ MainActivateCron
    \/ MainPrint
    \/ MainInterrupt
    \/ \E written \in BOOLEAN : MainInterruptActivate(written)

SpecMain == InitMain /\ [][NextMain]_vars

\* C26: a run of activate_cron.py aborted by KeyboardInterrupt, at whatever
\* point, leaves the cron file exactly as it was before the run; a completed
\* enable leaves the cron file holding exactly the schedule just built; a
\* completed disable leaves no cron file.
C26_AbortLeavesCronFile ==
    /\ flow.pc = "aborted" => cronfile = flow.pre
    /\ (flow.pc = "done" /\ flow.enable) =>
          cronfile = [exists |-> TRUE, lines |-> cron.lines]
    /\ (flow.pc = "done" /\ ~flow.enable) => ~cronfile.exists

\* the part of C26 about completed runs, which the program satisfies, and
\* what an aborted run leaves: the file of before, no file, or a new file,
\* empty or holding the schedule just built
C26_CompletedRunsAndAbortOutcomes ==
    /\ (flow.pc = "done" /\ flow.enable) =>
          cronfile = [exists |-> TRUE, lines |-> cron.lines]
    /\ (flow.pc = "done" /\ ~flow.enable) => ~cronfile.exists
    /\ flow.pc = "aborted" =>
          \/ cronfile = flow.pre
          \/ cronfile = NoCronFile
          \/ /\ Constructed(cron)
             /\ cronfile \in {[exists |-> TRUE, lines |-> <<>>],
                              [exists |-> TRUE, lines |-> cron.lines]}

====
